---------------------------- MODULE Spec2Model ----------------------------
(***************************************************************************)
(* The user-account handlers of src/unnamed/part_000 (the latest           *)
(* user.controller.js, lines 180-566): registerUser, loginUser,            *)
(* logoutUser, refreshAccessToken and generateAccessAndRefreshTokens.      *)
(*                                                                         *)
(* Each request is served by one asynchronous task (a member of Procs).    *)
(* A task yields at every await; one action is one store operation (or     *)
(* external upload) together with the synchronous code that runs between   *)
(* that await and the next one.  The synchronous prefix of a handler and   *)
(* its first store operation form the handler's first action.              *)
(*                                                                         *)
(* The User model, asyncHandler, ApiError, uploadOnCloudinary and the      *)
(* verifyJWT middleware are imported by the controller but their files     *)
(* are not part of the sources at hand; they are modelled from spec.md     *)
(* (sections 3, 5, 6 and 7).                                               *)
(***************************************************************************)
EXTENDS Integers, Sequences, FiniteSets, TLC

(***************************************************************************)
(* Bounds of the model.                                                    *)
(***************************************************************************)
\* Requests served in one behaviour.
MaxRequests == 3
\* Seconds the token clock may advance (a JWT's iat has second resolution).
MaxClock == 1

\* The concurrently running request tasks.
Procs == {"t1", "t2"}

(***************************************************************************)
(* Text.  A JavaScript string is the sequence of its characters, so that   *)
(* trim() and toLowerCase() are computed, not assumed.                     *)
(***************************************************************************)
LowerChar(c) ==
    CASE c = "A" -> "a"
      [] c = "B" -> "b"
      [] c = "C" -> "c"
      [] c = "D" -> "d"
      [] OTHER -> c

\* String.prototype.toLowerCase
toLowerCase(s) == [i \in DOMAIN s |-> LowerChar(s[i])]

IsSpace(c) == c = " "

RECURSIVE TrimStart(_)
TrimStart(s) ==
    IF s = <<>> THEN s
    ELSE IF IsSpace(Head(s)) THEN TrimStart(Tail(s)) ELSE s

RECURSIVE TrimEnd(_)
TrimEnd(s) ==
    IF s = <<>> THEN s
    ELSE IF IsSpace(s[Len(s)]) THEN TrimEnd(SubSeq(s, 1, Len(s) - 1)) ELSE s

\* String.prototype.trim
trim(s) == TrimEnd(TrimStart(s))

\* Request values used by the model.
UserAb == <<"a", "b">>
UserAB == <<"A", "b">>
UserCd == <<"c", "d">>
MailX == <<"x", "@">>
MailY == <<"y", "@">>
MailZ == <<"z", "@">>
FullNm == <<"N", " ", "N">>
Pw == <<"p", "w">>
PwBad == <<"p", "x">>
Empty == <<>>
Blank == <<" ", " ">>

\* A request body: a function from the keys present to their values.  A key
\* that is absent reads as undefined.
Has(body, k) == k \in DOMAIN body

Body4(f, e, u, pw) ==
    [k \in {"fullName", "email", "username", "password"} |->
        CASE k = "fullName" -> f
          [] k = "email" -> e
          [] k = "username" -> u
          [] OTHER -> pw]

Without(body, k) == [x \in DOMAIN body \ {k} |-> body[x]]

With(body, k, v) == [x \in DOMAIN body \cup {k} |-> IF x = k THEN v ELSE body[x]]

EmptyObj == [x \in {} |-> Empty]

RequiredFields == {"fullName", "email", "username", "password"}

\* Well-formed registration bodies, and one with a single field made empty,
\* whitespace-only or absent.
ValidRegisterBodies ==
    {Body4(FullNm, e, u, Pw) : e \in {MailX, MailY}, u \in {UserAb, UserAB, UserCd}}

BaseRegisterBody == Body4(FullNm, MailY, UserCd, Pw)

DefectiveRegisterBodies ==
    {With(BaseRegisterBody, k, v) : k \in RequiredFields, v \in {Empty, Blank}}
        \cup {Without(BaseRegisterBody, k) : k \in RequiredFields}

\* req.files as the multipart middleware leaves it: undefined (no multipart
\* files object), or an object whose keys are the file fields received.
NoFiles == [defined |-> FALSE, fields |-> EmptyObj]
FilesOf(names) == [defined |-> TRUE, fields |-> [n \in names |-> <<n, "/", "f">>]]
RegisterFiles ==
    {NoFiles, FilesOf({"coverImage"}), FilesOf({"avatar"}), FilesOf({"avatar", "coverImage"})}

\* The registration requests of the model: every well-formed body with an
\* avatar file, one well-formed body with every shape of req.files, and
\* every defective body with an avatar file.
RegisterRequests ==
    {<<b, FilesOf({"avatar"})>> : b \in ValidRegisterBodies \cup DefectiveRegisterBodies}
        \cup {<<BaseRegisterBody, f>> : f \in RegisterFiles}

LoginBody(u, e, pw) == [username |-> u, email |-> e, password |-> pw]

\* Login bodies: both identifiers (of one account, of two different
\* accounts, of none) with the right password, one with a wrong password,
\* and one body with either or both identifiers absent.
LoginBodies ==
    {LoginBody(UserAb, MailX, Pw), LoginBody(UserCd, MailY, Pw),
     LoginBody(UserAb, MailY, Pw), LoginBody(UserAb, MailX, PwBad),
     LoginBody(UserAB, MailZ, Pw),
     Without(LoginBody(UserAb, MailX, Pw), "username"),
     Without(LoginBody(UserAb, MailX, Pw), "email"),
     Without(Without(LoginBody(UserAb, MailX, Pw), "username"), "email")}

(***************************************************************************)
(* Tokens.  A signed JWT is its kind (which secret signed it), the account *)
(* id of its payload and its issue second.                                 *)
(***************************************************************************)
NoToken == [kind |-> "undefined"]
ForgedToken == [kind |-> "forged"]
Token(kind, id, iat) == [kind |-> kind, id |-> id, iat |-> iat]

\* JavaScript truthiness of a token-valued expression (a JWT is a non-empty
\* string; undefined is falsy).
Truthy(t) == t # NoToken

\* a || b
JsOr(a, b) == IF Truthy(a) THEN a ELSE b

\* b != v for a boolean b and v either undefined or a JWT string: a boolean
\* is never loosely equal to undefined, and ToNumber of a JWT string is NaN.
JsLooseNeqBool(b, v) ==
    IF v = NoToken THEN TRUE ELSE b \in BOOLEAN

(***************************************************************************)
(* The account store (the User model) and the collaborators.               *)
(***************************************************************************)
\* The password hash the model's pre-save hook stores.
Hash(pw) == <<"$">> \o pw

\* user.isPasswordCorrect(password)
isPasswordCorrect(user, pw) == user.password = Hash(pw)

\* uploadOnCloudinary(localFilePath): {url} on success, null otherwise; an
\* undefined path yields null.
NoUpload == [ok |-> FALSE, url |-> Empty]
Uploaded(path) == [ok |-> TRUE, url |-> <<"u", ":">> \o path]

\* The account a successful registration stores.
Account(body, avatar, coverImage) ==
    [username |-> toLowerCase(body["username"]),
     email |-> body["email"],
     fullName |-> body["fullName"],
     password |-> Hash(body["password"]),
     avatar |-> avatar.url,
     coverImage |-> IF coverImage.ok THEN coverImage.url ELSE Empty,
     refreshToken |-> NoToken]

EmptyStore == [a \in {} |-> 0]

\* The store after two registrations, before any login.
SeededStore ==
    [a \in {1, 2} |->
        IF a = 1
        THEN Account(Body4(FullNm, MailX, UserAb, Pw), Uploaded(<<"avatar", "/", "f">>), NoUpload)
        ELSE Account(Body4(FullNm, MailY, UserCd, Pw), Uploaded(<<"avatar", "/", "f">>), NoUpload)]

(***************************************************************************)
(* Responses.                                                              *)
(***************************************************************************)
NoCookies == [n \in {} |-> NoToken]
NoData == [user |-> 0, accessToken |-> NoToken, refreshToken |-> NoToken]
NoResp ==
    [status |-> 0, error |-> "none", message |-> "", cookies |-> NoCookies,
     cleared |-> {}, data |-> NoData]

\* throw new ApiError(statusCode, message), translated to the error envelope.
ApiErr(code, msg) == [NoResp EXCEPT !.status = code, !.error = "ApiError", !.message = msg]

\* An exception that is no ApiError, funnelled by asyncHandler to the
\* translation layer, which knows no status for it: Internal.
Uncaught(name) == [NoResp EXCEPT !.status = 500, !.error = name]

\* res.status(code).json(new ApiResponse(...))
Ok(code, cookies, cleared, data) ==
    [status |-> code, error |-> "none", message |-> "", cookies |-> cookies,
     cleared |-> cleared, data |-> data]

(***************************************************************************)
(* State.                                                                  *)
(***************************************************************************)
VARIABLES
    users,   \* the account collection: _id -> account document
    clock,   \* the second the token signer reads
    nreq,    \* requests served so far
    pc,      \* per task: where its handler is suspended
    req,     \* per task: the request being served
    loc,     \* per task: the handler's local variables
    resp,    \* per task: the response sent
    hist     \* per task: history of the request (not program state)

vars == <<users, clock, nreq, pc, req, loc, resp, hist>>

NoReq ==
    [handler |-> "none", body |-> EmptyObj, files |-> NoFiles,
     cookies |-> NoCookies, user |-> 0]
NoLoc ==
    [uid |-> 0, accessToken |-> NoToken, refreshToken |-> NoToken,
     avatar |-> NoUpload, coverImage |-> NoUpload]
\* wrote: the request has written to the store; disturbed: another request
\* wrote the refresh token of this request's account while it ran;
\* overwritten: another request wrote it after this request's own write and
\* before its response; sentStored: the account's stored refresh token when the response was
\* sent; conflictAtStart, storedAtStart: what the store held for the
\* request's username/email and token when the request began; upload: how
\* the avatar upload went ("none" while not attempted).
NoHist ==
    [wrote |-> FALSE, disturbed |-> FALSE, overwritten |-> FALSE,
     sentStored |-> NoToken,
     conflictAtStart |-> "none", storedAtStart |-> NoToken, upload |-> "none"]

Init ==
    /\ users \in {EmptyStore, SeededStore}
    /\ clock = 0
    /\ nreq = 0
    /\ pc = [p \in Procs |-> "idle"]
    /\ req = [p \in Procs |-> NoReq]
    /\ loc = [p \in Procs |-> NoLoc]
    /\ resp = [p \in Procs |-> NoResp]
    /\ hist = [p \in Procs |-> NoHist]

Ids == DOMAIN users

\* A task takes its next request once the previous response is out.
CanStart(p) == pc[p] \in {"idle", "done"} /\ nreq < MaxRequests

\* The handler of p ends with response r.
Finish(p, r) ==
    /\ pc' = [pc EXCEPT ![p] = "done"]
    /\ resp' = [resp EXCEPT ![p] = r]

\* The handler of p suspends at label l.
Suspend(p, l) ==
    /\ pc' = [pc EXCEPT ![p] = l]
    /\ resp' = [resp EXCEPT ![p] = NoResp]

\* Task p wrote the refresh token of account a: every other running request
\* for that account (or not yet bound to one) has been disturbed.
Disturb(h, p, a) ==
    [r \in Procs |->
        IF r # p /\ pc[r] \notin {"idle", "done"} /\ loc[r].uid \in {0, a}
        THEN [h[r] EXCEPT !.disturbed = TRUE,
                          !.overwritten = h[r].wrote]
        ELSE h[r]]

\* The seconds pass.
Tick ==
    /\ clock < MaxClock
    /\ clock' = clock + 1
    /\ UNCHANGED <<users, nreq, pc, req, loc, resp, hist>>

(***************************************************************************)
(* registerUser                                                            *)
(***************************************************************************)
\* [fullName, email, username, password].some((field) => field?.trim() === "")
SomeFieldBlank(body) ==
    \E k \in RequiredFields : Has(body, k) /\ trim(body[k]) = Empty

\* User.findOne({ $or: [{ username }, { email }] }): the accounts matching
\* the values as given (an undefined value matches no account).
FindOneMatches(body) ==
    {a \in Ids :
        \/ Has(body, "username") /\ users[a].username = body["username"]
        \/ Has(body, "email") /\ users[a].email = body["email"]}

\* What the store holds for the request's username and email: an account
\* with that very username or email ("exact"), or only one whose stored
\* username is the lowercased request username ("case").
ConflictKind(body) ==
    IF FindOneMatches(body) # {} THEN "exact"
    ELSE IF Has(body, "username")
            /\ \E a \in Ids : users[a].username = toLowerCase(body["username"])
         THEN "case"
         ELSE "none"

\* req.files?.avatar[0]?.path: "undefined" when req.files is undefined (the
\* chain short-circuits), a TypeError when req.files has no avatar entry
\* (undefined[0]), the path otherwise.
AvatarLocalPath(files) ==
    IF ~files.defined THEN "undefined"
    ELSE IF "avatar" \notin DOMAIN files.fields THEN "TypeError"
    ELSE "path"

\* Lines 207-242: the field validation, the existence check and the avatar
\* path.
registerUser(p, body, files) ==
    /\ CanStart(p)
    /\ nreq' = nreq + 1
    /\ req' = [req EXCEPT ![p] = [NoReq EXCEPT !.handler = "register", !.body = body, !.files = files]]
    /\ loc' = [loc EXCEPT ![p] = NoLoc]
    /\ hist' = [hist EXCEPT ![p] = [NoHist EXCEPT !.conflictAtStart = ConflictKind(body)]]
    /\ IF SomeFieldBlank(body)
       THEN Finish(p, ApiErr(400, "All fields are required"))
       ELSE IF FindOneMatches(body) # {}
       THEN Finish(p, ApiErr(409, "User with email or username already exists"))
       ELSE IF AvatarLocalPath(files) = "TypeError"
       THEN Finish(p, Uncaught("TypeError"))
       ELSE IF AvatarLocalPath(files) = "undefined"
       THEN Finish(p, ApiErr(400, "Avatar file is required"))
       ELSE Suspend(p, "register_upload")
    /\ UNCHANGED <<users, clock>>

\* Lines 245-260: both uploads, the avatar check and the evaluation of the
\* arguments of User.create (username.toLowerCase()).
registerUser_upload(p, avatarOk, coverOk) ==
    /\ pc[p] = "register_upload"
    /\ LET files == req[p].files
           avatar == IF avatarOk THEN Uploaded(files.fields["avatar"]) ELSE NoUpload
           coverImage ==
               IF coverOk /\ "coverImage" \in DOMAIN files.fields
               THEN Uploaded(files.fields["coverImage"])
               ELSE NoUpload
       IN /\ loc' = [loc EXCEPT ![p].avatar = avatar, ![p].coverImage = coverImage]
          /\ hist' = [hist EXCEPT ![p].upload = IF avatar.ok THEN "ok" ELSE "failed"]
          /\ IF ~avatar.ok
             THEN Finish(p, ApiErr(400, "Avatar file is required"))
             ELSE IF ~Has(req[p].body, "username")
             THEN Finish(p, Uncaught("TypeError"))
             ELSE Suspend(p, "register_create")
    /\ UNCHANGED <<users, clock, nreq, req>>

\* The document User.create is given; a field absent from the body is
\* undefined in it.
NewDocFields(body) == DOMAIN body \cap RequiredFields

\* The store's unique indexes on username and email.
DuplicateKey(username, email) ==
    \E a \in Ids : users[a].username = username \/ users[a].email = email

\* Lines 253-260: User.create.  The schema requires every field; the unique
\* indexes reject a second account with the same username or email.  The
\* handler catches neither failure.
registerUser_create(p) ==
    /\ pc[p] = "register_create"
    /\ LET body == req[p].body IN
       IF NewDocFields(body) # RequiredFields
       THEN /\ Finish(p, Uncaught("ValidationError"))
            /\ UNCHANGED <<users, loc, hist>>
       ELSE IF DuplicateKey(toLowerCase(body["username"]), body["email"])
       THEN /\ Finish(p, Uncaught("MongoServerError"))
            /\ UNCHANGED <<users, loc, hist>>
       ELSE LET id == Cardinality(Ids) + 1 IN
            /\ users' = [a \in Ids \cup {id} |->
                            IF a = id
                            THEN Account(body, loc[p].avatar, loc[p].coverImage)
                            ELSE users[a]]
            /\ loc' = [loc EXCEPT ![p].uid = id]
            /\ hist' = [hist EXCEPT ![p].wrote = TRUE]
            /\ Suspend(p, "register_respond")
    /\ UNCHANGED <<clock, nreq, req>>

\* Lines 263-275: the re-fetch without password and refreshToken, and the
\* 201 response.
registerUser_respond(p) ==
    /\ pc[p] = "register_respond"
    /\ IF loc[p].uid \notin Ids
       THEN Finish(p, ApiErr(500, "Something went wrong while user registration!"))
       ELSE Finish(p, Ok(201, NoCookies, {}, [NoData EXCEPT !.user = loc[p].uid]))
    /\ UNCHANGED <<users, clock, nreq, req, loc, hist>>

(***************************************************************************)
(* loginUser                                                               *)
(***************************************************************************)
\* if (!username || !email): a key absent from the body is undefined.
IdentifierMissing(body) == ~Has(body, "username") \/ ~Has(body, "email")

\* Lines 278-294: the identifier check and the lookup by username or email.
loginUser(p, body) ==
    /\ CanStart(p)
    /\ nreq' = nreq + 1
    /\ req' = [req EXCEPT ![p] = [NoReq EXCEPT !.handler = "login", !.body = body]]
    /\ hist' = [hist EXCEPT ![p] = NoHist]
    /\ IF IdentifierMissing(body)
       THEN /\ Finish(p, ApiErr(400, "username or email is required"))
            /\ loc' = [loc EXCEPT ![p] = NoLoc]
       ELSE IF FindOneMatches(body) = {}
       THEN /\ Finish(p, ApiErr(404, "User does not exist"))
            /\ loc' = [loc EXCEPT ![p] = NoLoc]
       ELSE \E a \in FindOneMatches(body) :
            /\ Suspend(p, "login_password")
            /\ loc' = [loc EXCEPT ![p] = [NoLoc EXCEPT !.uid = a]]
    /\ UNCHANGED <<users, clock>>

\* loginUser_password without the throw of lines 299-301: the result of the
\* comparison is not looked at.
loginUser_password_unchecked(p) ==
    /\ pc[p] = "login_password"
    /\ Suspend(p, "generate_find")
    /\ UNCHANGED <<users, clock, nreq, req, loc, hist>>

\* Lines 296-306: the password check against the stored hash.
loginUser_password(p) ==
    /\ pc[p] = "login_password"
    /\ IF isPasswordCorrect(users[loc[p].uid], req[p].body["password"])
       THEN Suspend(p, "generate_find")
       ELSE Finish(p, ApiErr(401, "Password invalid"))
    /\ UNCHANGED <<users, clock, nreq, req, loc, hist>>

(***************************************************************************)
(* generateAccessAndRefreshTokens                                          *)
(***************************************************************************)
\* user.generateAccessToken() / user.generateRefreshToken(): signed now.
generateAccessToken(id) == Token("access", id, clock)
generateRefreshToken(id) == Token("refresh", id, clock)

\* Lines 188-195: the account is loaded and both tokens are signed.
generateTokens_find(p) ==
    /\ pc[p] = "generate_find"
    /\ IF loc[p].uid \notin Ids
       THEN /\ Finish(p, ApiErr(500, "Something went wrong while generating refresh and access token"))
            /\ loc' = loc
       ELSE /\ Suspend(p, "generate_save")
            /\ loc' = [loc EXCEPT ![p].accessToken = generateAccessToken(loc[p].uid),
                                  ![p].refreshToken = generateRefreshToken(loc[p].uid)]
    /\ UNCHANGED <<users, clock, nreq, req, hist>>

\* generateTokens_save without the assignment of line 195: the save stores
\* the account as it was loaded.
generateTokens_save_unassigned(p) ==
    /\ pc[p] = "generate_save"
    /\ hist' = [hist EXCEPT ![p].wrote = TRUE]
    /\ Suspend(p, "tokens_respond")
    /\ UNCHANGED <<users, clock, nreq, req, loc>>

\* Lines 195-198: user.refreshToken = refreshToken; user.save().
generateTokens_save(p) ==
    /\ pc[p] = "generate_save"
    /\ users' = [users EXCEPT ![loc[p].uid].refreshToken = loc[p].refreshToken]
    /\ hist' = Disturb([hist EXCEPT ![p].wrote = TRUE], p, loc[p].uid)
    /\ Suspend(p, "tokens_respond")
    /\ UNCHANGED <<clock, nreq, req, loc>>

\* tokens_respond with the access token sent in the place of the refresh
\* token.
tokens_respond_swapped(p) ==
    /\ pc[p] = "tokens_respond"
    /\ LET access == loc[p].accessToken
           cookies == [n \in {"accessToken", "refreshToken"} |-> access]
           data == [user |-> IF req[p].handler = "login" THEN loc[p].uid ELSE 0,
                    accessToken |-> access, refreshToken |-> access]
       IN Finish(p, Ok(200, cookies, {}, data))
    /\ hist' = [hist EXCEPT ![p].sentStored = users[loc[p].uid].refreshToken]
    /\ UNCHANGED <<users, clock, nreq, req, loc>>

\* The response that carries the tokens.  loginUser, lines 308-332: the
\* re-fetch and the 200 response with both cookies.  refreshAccessToken,
\* lines 402-418: the result of generateAccessAndRefreshTokens has no key
\* newRefreshToken, so that variable is undefined.
tokens_respond(p) ==
    /\ pc[p] = "tokens_respond"
    /\ LET access == loc[p].accessToken
           refresh == IF req[p].handler = "login" THEN loc[p].refreshToken ELSE NoToken
           cookies == [n \in {"accessToken", "refreshToken"} |->
                          IF n = "accessToken" THEN access ELSE refresh]
           data == [user |-> IF req[p].handler = "login" THEN loc[p].uid ELSE 0,
                    accessToken |-> access, refreshToken |-> refresh]
       IN Finish(p, Ok(200, cookies, {}, data))
    /\ hist' = [hist EXCEPT ![p].sentStored = users[loc[p].uid].refreshToken]
    /\ UNCHANGED <<users, clock, nreq, req, loc>>

(***************************************************************************)
(* logoutUser                                                              *)
(***************************************************************************)
\* logoutUser as first written (lines 148-164), $set: {refreshToken:
\* undefined}, taken as an update that sets nothing: the stored token stays.
logoutUser_setUndefined(p, a) ==
    /\ CanStart(p)
    /\ a \in Ids
    /\ nreq' = nreq + 1
    /\ req' = [req EXCEPT ![p] = [NoReq EXCEPT !.handler = "logout", !.user = a]]
    /\ loc' = [loc EXCEPT ![p] = [NoLoc EXCEPT !.uid = a]]
    /\ hist' = [hist EXCEPT ![p] = [NoHist EXCEPT !.storedAtStart = users[a].refreshToken]]
    /\ Suspend(p, "logout_respond")
    /\ UNCHANGED <<users, clock>>

\* Lines 335-350: the authentication middleware has set req.user to an
\* existing account; its refreshToken is unset.
logoutUser(p, a) ==
    /\ CanStart(p)
    /\ a \in Ids
    /\ nreq' = nreq + 1
    /\ req' = [req EXCEPT ![p] = [NoReq EXCEPT !.handler = "logout", !.user = a]]
    /\ loc' = [loc EXCEPT ![p] = [NoLoc EXCEPT !.uid = a]]
    /\ users' = [users EXCEPT ![a].refreshToken = NoToken]
    /\ hist' = Disturb([hist EXCEPT ![p] = [NoHist EXCEPT !.wrote = TRUE,
                                                          !.storedAtStart = users[a].refreshToken]],
                        p, a)
    /\ Suspend(p, "logout_respond")
    /\ UNCHANGED clock

\* Lines 352-361: the 200 response that clears both cookies.
logoutUser_respond(p) ==
    /\ pc[p] = "logout_respond"
    /\ Finish(p, Ok(200, NoCookies, {"accessToken", "refreshToken"}, NoData))
    /\ hist' = [hist EXCEPT ![p].sentStored = users[loc[p].uid].refreshToken]
    /\ UNCHANGED <<users, clock, nreq, req, loc>>

(***************************************************************************)
(* refreshAccessToken                                                      *)
(***************************************************************************)
\* The refresh tokens a client can present: any the server has signed for
\* an account up to now, or one it did not sign.
PresentableTokens ==
    {ForgedToken} \cup {Token("refresh", a, t) : a \in Ids, t \in 0..clock}

TokenField(obj) == IF "refreshToken" \in DOMAIN obj THEN obj["refreshToken"] ELSE NoToken

OnlyToken(t) == [n \in {"refreshToken"} |-> t]

\* req.cookies.refreshToken || req.body.refreshToken
IncomingRefreshToken(cookies, body) == JsOr(TokenField(cookies), TokenField(body))

\* The controller imports asyncHandler, ApiError, User, uploadOnCloudinary
\* and ApiResponse (lines 180-184); the identifier jwt is not bound.
JwtInScope == FALSE

\* jwt.verify(token, REFRESH_TOKEN_SECRET) returns the payload of a token
\* signed with the refresh secret and throws otherwise; an undefined token
\* is never verified.  The model's clock stays below the token lifetime.
JwtVerifies(t) == JwtInScope /\ t.kind = "refresh"

\* RefreshDecision with the guard of line 371 the right way round, jwt in
\* scope and the comparison with the stored token left out: any token the
\* server signed for an existing account is rotated.
RefreshDecision_noReuseCheck(incoming) ==
    IF ~Truthy(incoming) THEN "unauthorized"
    ELSE IF incoming.kind # "refresh" THEN "unauthorized"
    ELSE IF incoming.id \notin Ids THEN "unauthorized"
    ELSE "rotate"

\* Lines 368-392 and 419-421: what the handler decides for the incoming
\* token, given the accounts and their stored tokens.  Every throw, inside
\* the try block or before it, ends as ApiError 401.
RefreshDecision(incoming) ==
    IF Truthy(incoming) THEN "unauthorized"
    ELSE IF ~JwtVerifies(incoming) THEN "unauthorized"
    ELSE IF incoming.id \notin Ids THEN "unauthorized"
    ELSE IF JsLooseNeqBool(~Truthy(incoming), users[incoming.id].refreshToken)
    THEN "unauthorized"
    ELSE "rotate"

\* The stored refresh token of the account a presented token names.
StoredFor(t) ==
    IF "id" \in DOMAIN t /\ t.id \in Ids THEN users[t.id].refreshToken ELSE NoToken

\* Lines 364-403.  No run of lines 368-383 reaches the await of line 384, so
\* the account lookup and the comparison are part of this step.
refreshAccessToken(p, cookies, body) ==
    /\ CanStart(p)
    /\ nreq' = nreq + 1
    /\ req' = [req EXCEPT ![p] = [NoReq EXCEPT !.handler = "refresh", !.cookies = cookies, !.body = body]]
    /\ LET incoming == IncomingRefreshToken(cookies, body) IN
       /\ hist' = [hist EXCEPT ![p] = [NoHist EXCEPT !.storedAtStart = StoredFor(incoming)]]
       /\ IF RefreshDecision(incoming) = "rotate"
          THEN /\ Suspend(p, "generate_find")
               /\ loc' = [loc EXCEPT ![p] = [NoLoc EXCEPT !.uid = incoming.id]]
          ELSE /\ Finish(p, ApiErr(401, "Unauthorized request"))
               /\ loc' = [loc EXCEPT ![p] = NoLoc]
    /\ UNCHANGED <<users, clock>>

(***************************************************************************)
(* The system.                                                             *)
(***************************************************************************)
RegisterNext ==
    \E p \in Procs :
        \/ \E r \in RegisterRequests : registerUser(p, r[1], r[2])
        \/ \E avatarOk \in BOOLEAN, coverOk \in BOOLEAN : registerUser_upload(p, avatarOk, coverOk)
        \/ registerUser_create(p)
        \/ registerUser_respond(p)

AuthNext ==
    \/ Tick
    \/ \E p \in Procs :
        \/ \E body \in LoginBodies : loginUser(p, body)
        \/ loginUser_password(p)
        \/ generateTokens_find(p)
        \/ generateTokens_save(p)
        \/ tokens_respond(p)
        \/ \E a \in Ids : logoutUser(p, a)
        \/ logoutUser_respond(p)
        \/ \E t \in PresentableTokens :
              \/ refreshAccessToken(p, OnlyToken(t), EmptyObj)
              \/ refreshAccessToken(p, NoCookies, OnlyToken(t))
        \/ refreshAccessToken(p, NoCookies, EmptyObj)

Next == RegisterNext \/ AuthNext

\* The whole system.
Spec == Init /\ [][Next]_vars

\* Registration alone, from an empty or a populated store: the other
\* handlers never add an account nor change a username or an email.
SpecRegister == Init /\ [][RegisterNext]_vars

\* Login, logout and token refresh over the accounts of a populated store:
\* registration never touches the refresh token of an existing account.
InitAuth == Init /\ users = SeededStore

SpecAuth == InitAuth /\ [][AuthNext]_vars

(***************************************************************************)
(* Properties.                                                             *)
(***************************************************************************)
\* Task p has answered a request of handler h.
Done(p, h) == pc[p] = "done" /\ req[p].handler = h

\* Some required field of the body is absent, empty or whitespace-only.
NotAllNonBlank(body) ==
    \E k \in RequiredFields : ~Has(body, k) \/ trim(body[k]) = Empty

UniqueAccounts ==
    \A a, b \in Ids :
        a # b => users[a].username # users[b].username /\ users[a].email # users[b].email

\* C1: a registration whose username or email is that of a stored account
\* (the username also when it differs from the stored one by letter case
\* only) ends with Conflict (409) and adds no account, and no two accounts
\* ever share a username or an email.  Stated for the requests the 409
\* presupposes: the fields pass the validation and no avatar upload fails.
C1_DuplicateIsConflict ==
    /\ UniqueAccounts
    /\ \A p \in Procs :
        (/\ Done(p, "register")
         /\ ~NotAllNonBlank(req[p].body)
         /\ hist[p].upload # "failed"
         /\ hist[p].conflictAtStart \in {"exact", "case"})
        => /\ resp[p].status = 409
           /\ resp[p].error = "ApiError"
           /\ ~hist[p].wrote

\* C7: a registration with a required field that is absent, empty or
\* whitespace-only ends with BadRequest (400) and leaves the store as it
\* was.
C7_BlankFieldIsBadRequest ==
    \A p \in Procs :
        (Done(p, "register") /\ NotAllNonBlank(req[p].body))
        => /\ resp[p].status = 400
           /\ resp[p].error = "ApiError"
           /\ ~hist[p].wrote

\* The request of p carried no usable avatar: no files object, a files
\* object without an avatar entry, or an avatar whose upload gave no URL.
NoAvatar(p) ==
    \/ ~req[p].files.defined
    \/ "avatar" \notin DOMAIN req[p].files.fields
    \/ hist[p].upload = "failed"

\* C8: a registration with valid, non-conflicting fields and no avatar ends
\* with BadRequest (400), with no other error, and creates no account.
C8_NoAvatarIsBadRequest ==
    \A p \in Procs :
        (/\ Done(p, "register")
         /\ ~NotAllNonBlank(req[p].body)
         /\ hist[p].conflictAtStart = "none"
         /\ NoAvatar(p))
        => /\ resp[p].status = 400
           /\ resp[p].error = "ApiError"
           /\ ~hist[p].wrote

\* Both tasks registered the same username, both passed the existence
\* check, q created its account and p went on to User.create.
LostRace(p, q) ==
    /\ p # q
    /\ Done(p, "register") /\ Done(q, "register")
    /\ ~NotAllNonBlank(req[p].body) /\ ~NotAllNonBlank(req[q].body)
    /\ req[p].body["username"] = req[q].body["username"]
    /\ hist[p].conflictAtStart = "none" /\ hist[q].conflictAtStart = "none"
    /\ hist[q].wrote
    /\ hist[p].upload = "ok"

\* C9: of two concurrent registrations of one username that both pass the
\* existence check, the store rejects the second create, one account with
\* that username exists afterwards, and the loser ends with Conflict (409).
C9_RaceLoserGetsConflict ==
    \A p, q \in Procs :
        LostRace(p, q)
        => /\ Cardinality({a \in Ids :
                  users[a].username = toLowerCase(req[p].body["username"])}) = 1
           /\ ~hist[p].wrote
           /\ resp[p].status = 409

\* The tokens of a response: both cookies set, and the body's tokens.
BothCookies == {"accessToken", "refreshToken"}

\* The account the login request of p names carries the password given.
PasswordMatches(p) ==
    /\ loc[p].uid \in Ids
    /\ users[loc[p].uid].password = Hash(req[p].body["password"])

\* C2: a login that passes the identifier check, names an existing account
\* and carries its password, with no other request writing that account's
\* refresh token meanwhile, answers 200, sets both cookies, returns the
\* cookies' tokens in the body, and the account's stored refresh token is
\* the returned one when the response is sent.
C2_LoginSetsMatchingTokens ==
    \A p \in Procs :
        (/\ Done(p, "login")
         /\ ~IdentifierMissing(req[p].body)
         /\ PasswordMatches(p)
         /\ ~hist[p].disturbed)
        => /\ resp[p].status = 200
           /\ DOMAIN resp[p].cookies = BothCookies
           /\ Truthy(resp[p].cookies["accessToken"])
           /\ Truthy(resp[p].cookies["refreshToken"])
           /\ resp[p].data.accessToken = resp[p].cookies["accessToken"]
           /\ resp[p].data.refreshToken = resp[p].cookies["refreshToken"]
           /\ hist[p].sentStored = resp[p].data.refreshToken

\* An undisturbed login succeeded after the clock moved, and the token it
\* returned is the stored one.
C2_Witness ==
    \E p \in Procs :
        /\ Done(p, "login")
        /\ PasswordMatches(p)
        /\ ~hist[p].disturbed
        /\ resp[p].status = 200
        /\ clock > 0
        /\ users[loc[p].uid].refreshToken = Token("refresh", loc[p].uid, clock)

C4_LogoutLeavesNoToken ==
    \A p \in Procs :
        Done(p, "logout")
        => /\ resp[p].status = 200
           /\ resp[p].cleared = BothCookies
           /\ hist[p].sentStored = NoToken

\* The step is the store update of a logout by task p.
LogoutUpdates(p) == pc[p] # "logout_respond" /\ pc'[p] = "logout_respond"

\* The step is the token save of a login or refresh of account a.
TokenSaveFor(a) ==
    \E p \in Procs :
        /\ pc[p] = "generate_save" /\ pc'[p] = "tokens_respond"
        /\ loc[p].uid = a
        /\ req[p].handler \in {"login", "refresh"}

\* C4, amended: the store update of a logout leaves the acting account
\* without a stored refresh token and no other account changed; the
\* response is 200 and clears both cookies; a stored refresh token appears
\* on an account only by the token save of a login or refresh for it; and
\* when the logout's response is sent the account has no stored refresh
\* token unless another request wrote it while the logout was running.
C4_LogoutClearsUntilTokenSave ==
    /\ [](\A p \in Procs :
            Done(p, "logout")
            => /\ resp[p].status = 200
               /\ resp[p].cleared = BothCookies
               /\ resp[p].cookies = NoCookies
               /\ (hist[p].sentStored = NoToken \/ hist[p].disturbed))
    /\ [][/\ \A p \in Procs :
                LogoutUpdates(p)
                => /\ users'[loc'[p].uid].refreshToken = NoToken
                   /\ \A b \in Ids \ {loc'[p].uid} : users'[b] = users[b]
          /\ \A a \in Ids :
                (users[a].refreshToken = NoToken /\ users'[a].refreshToken # NoToken)
                => TokenSaveFor(a)]_vars

\* A logout of an account that held a refresh token completed with the
\* token gone, while the other account kept its own.
C4_Witness ==
    \E p \in Procs :
        /\ Done(p, "logout")
        /\ Truthy(hist[p].storedAtStart)
        /\ hist[p].sentStored = NoToken
        /\ users[loc[p].uid].refreshToken = NoToken
        /\ \E b \in Ids \ {loc[p].uid} : Truthy(users[b].refreshToken)

\* The refresh token the request of p presented.
Presented(p) == IncomingRefreshToken(req[p].cookies, req[p].body)

\* C5: a refresh whose presented token differs from the refresh token
\* stored on the account it names (a token since replaced or cleared
\* included) ends with Unauthorized (401) and writes nothing to the store.
C5_StaleTokenRejected ==
    \A p \in Procs :
        (/\ Done(p, "refresh")
         /\ Truthy(Presented(p))
         /\ Presented(p) # hist[p].storedAtStart)
        => /\ resp[p].status = 401
           /\ resp[p].error = "ApiError"
           /\ resp[p].cookies = NoCookies
           /\ ~hist[p].wrote

\* A refresh presented a token the server signed for an account whose
\* stored token a later login had replaced, and was answered.
C5_Witness ==
    \E p \in Procs :
        /\ Done(p, "refresh")
        /\ Presented(p).kind = "refresh"
        /\ Truthy(hist[p].storedAtStart)
        /\ hist[p].storedAtStart.iat > Presented(p).iat
        /\ resp[p].status = 401

\* C6: a refresh presenting the signed, unexpired refresh token stored on
\* its account answers 200 with a defined access and refresh token in body
\* and cookies, and the stored refresh token is then the returned one and
\* not the presented one.
C6_MatchingTokenRotates ==
    \A p \in Procs :
        (/\ Done(p, "refresh")
         /\ Presented(p).kind = "refresh"
         /\ Presented(p) = hist[p].storedAtStart)
        => /\ resp[p].status = 200
           /\ DOMAIN resp[p].cookies = BothCookies
           /\ Truthy(resp[p].data.accessToken)
           /\ Truthy(resp[p].data.refreshToken)
           /\ resp[p].cookies["accessToken"] = resp[p].data.accessToken
           /\ resp[p].cookies["refreshToken"] = resp[p].data.refreshToken
           /\ hist[p].sentStored = resp[p].data.refreshToken
           /\ hist[p].sentStored # Presented(p)

\* The login body of p names an account and carries its password.
NamesAccountWithPassword(p) ==
    \E a \in FindOneMatches(req[p].body) :
        users[a].password = Hash(req[p].body["password"])

\* C10: a login is refused with BadRequest (400) only if username and email
\* are both absent; with one of them, naming an existing account, and the
\* right password it logs the account in.
C10_OneIdentifierLogsIn ==
    \A p \in Procs :
        Done(p, "login")
        => /\ resp[p].status = 400
              => ~Has(req[p].body, "username") /\ ~Has(req[p].body, "email")
           /\ ((Has(req[p].body, "username") # Has(req[p].body, "email"))
                /\ NamesAccountWithPassword(p))
              => resp[p].status = 200

\* Two tasks log in to the same account, and p has been answered with 200.
ConcurrentLoginPair(p, q) ==
    /\ p # q
    /\ Done(p, "login") /\ resp[p].status = 200
    /\ req[q].handler = "login" /\ pc[q] # "idle"
    /\ loc[q].uid = resp[p].data.user

\* C11 as stated: under any interleaving of concurrent logins (or refreshes)
\* of one account, every request answered successfully returns the refresh
\* token that is stored on the account when its response is sent.  Only
\* logins and refreshes store a refresh token, so the case of the claim is
\* the one where a token is stored at the response (a logout in between,
\* which the claim does not speak of, leaves none).
C11_ReturnedTokenIsStored ==
    \A p \in Procs :
        (/\ pc[p] = "done"
         /\ req[p].handler \in {"login", "refresh"}
         /\ resp[p].status = 200
         /\ hist[p].sentStored.kind = "refresh")
        => hist[p].sentStored = resp[p].data.refreshToken

\* C11 amended: a request answered successfully returns the refresh token
\* it generated and saved itself; the token stored when the response is
\* sent is that token unless another request wrote the account's token
\* between this request's save and its response, and then it is what the
\* other request wrote: no token, or another refresh token of the account.
C11_ReturnedTokenIsOwnSave ==
    \A p \in Procs :
        (/\ pc[p] = "done"
         /\ req[p].handler \in {"login", "refresh"}
         /\ resp[p].status = 200)
        => /\ hist[p].wrote
           /\ resp[p].data.refreshToken = loc[p].refreshToken
           /\ resp[p].data.refreshToken.kind = "refresh"
           /\ resp[p].data.refreshToken.id = loc[p].uid
           /\ ~hist[p].overwritten
                 => hist[p].sentStored = resp[p].data.refreshToken
           /\ hist[p].sentStored # resp[p].data.refreshToken
                 => /\ hist[p].overwritten
                    /\ \/ hist[p].sentStored = NoToken
                       \/ /\ hist[p].sentStored.kind = "refresh"
                          /\ hist[p].sentStored.id = loc[p].uid

\* Two concurrent logins of one account; the second saved its token between
\* the first one's save and response, so the first returned a stale token.
C11_Witness ==
    \E p, q \in Procs :
        /\ ConcurrentLoginPair(p, q)
        /\ hist[q].wrote
        /\ hist[p].overwritten
        /\ hist[p].sentStored = loc[q].refreshToken
        /\ hist[p].sentStored # resp[p].data.refreshToken

=============================================================================
